---- MODULE Spec2Model ----
(***************************************************************************)
(* Model of px-totp's setup.py: the module body opens README.md in text    *)
(* read mode, reads it whole, leaves the `with` block (closing the file),  *)
(* evaluates setuptools.find_packages() and calls setuptools.setup with    *)
(* literal metadata plus the text that was read.                           *)
(*                                                                         *)
(* A file's content is a sequence of byte classes:                         *)
(*   "a"   an ordinary character                                           *)
(*   "LF"  a line feed            "CR"  a carriage return                  *)
(*   "BAD" a byte that is not valid in the file's encoding                 *)
(***************************************************************************)
EXTENDS Naturals, Sequences, FiniteSets

VARIABLES
    README,            \* the file README.md on disk
    tree,              \* directories of the working tree that are packages
    pc,                \* position in the module body
    fh,                \* the file object bound by the with statement
    LONG_DESCRIPTION,  \* the module-level name of line 15
    packages,          \* value of the packages= argument once evaluated
    exc,               \* the exception in flight, "none" when there is none
    setupCalls,        \* keyword arguments of each call of setuptools.setup
    events,            \* steps taken by the current run, in order
    previous           \* what an earlier run of the script read and passed

vars == <<README, tree, pc, fh, LONG_DESCRIPTION, packages, exc, setupCalls,
          events, previous>>

\* Longest README.md content explored.
MaxLen == 2

Bytes == {"a", "LF", "CR", "BAD"}

Contents == UNION {[1..n -> Bytes] : n \in 0..MaxLen}

NoFile == [exists |-> FALSE, readable |-> FALSE, content |-> <<>>]

Files == {NoFile} \cup [exists : {TRUE}, readable : BOOLEAN, content : Contents]

Dirs == {"px_totp", "tests"}

Trees == SUBSET Dirs

Unbound == [bound |-> FALSE]

Bound(v) == [bound |-> TRUE, value |-> v]

NoHandle == [state |-> "unbound", mode |-> "none"]

NoRun == [ran |-> FALSE]

----------------------------------------------------------------------------
(* Pure parts of the script.                                               *)

\* open(..., 'r') decodes strictly: one invalid byte makes read() raise.
Decodable(content) == \A i \in 1..Len(content) : content[i] # "BAD"

\* Text mode with the default newline=None: "\r\n" and a lone "\r" both
\* come back as "\n".
RECURSIVE UniversalNewlines(_)
UniversalNewlines(s) ==
    IF s = <<>> THEN <<>>
    ELSE IF Head(s) = "CR"
         THEN IF Len(s) > 1 /\ s[2] = "LF"
              THEN <<"LF">> \o UniversalNewlines(SubSeq(s, 3, Len(s)))
              ELSE <<"LF">> \o UniversalNewlines(Tail(s))
         ELSE <<Head(s)>> \o UniversalNewlines(Tail(s))

\* fh.readline(): the text up to and including the first line end.
RECURSIVE FirstLine(_)
FirstLine(t) ==
    IF t = <<>> THEN <<>>
    ELSE IF Head(t) = "LF" THEN <<"LF">>
         ELSE <<Head(t)>> \o FirstLine(Tail(t))

ReadFirstLine(content) == FirstLine(UniversalNewlines(content))

ReadOrPlaceholder(content) ==
    IF content = <<>> THEN <<"a">> ELSE UniversalNewlines(content)

\* fh.read() on a decodable file: the whole text.
Read(content) == UniversalNewlines(content)

\* setuptools.find_packages() lists the package directories of the tree.
find_packages(t) ==
    (IF "px_totp" \in t THEN <<"px_totp">> ELSE <<>>)
        \o (IF "tests" \in t THEN <<"tests">> ELSE <<>>)

MetadataClassifiersReordered(ld, pkgs) ==
    [name |-> "px-totp",
     version |-> "0.0.1",
     scripts |-> <<"px-totp">>,
     author |-> "P. H.",
     author_email |-> "px-totp.perfide@safersignup.de",
     description |-> "Time-based One-Time Password Generator",
     long_description |-> ld,
     long_description_content_type |-> "text/markdown",
     url |-> "https://github.com/perfide/px-totp",
     packages |-> pkgs,
     classifiers |-> <<"License :: OSI Approved :: BSD License",
                       "Programming Language :: Python :: 3",
                       "Operating System :: OS Independent">>]

MetadataNameFromPackages(ld, pkgs) ==
    [name |-> IF pkgs = <<>> THEN "px-totp" ELSE pkgs[1],
     version |-> "0.0.1",
     scripts |-> <<"px-totp">>,
     author |-> "P. H.",
     author_email |-> "px-totp.perfide@safersignup.de",
     description |-> "Time-based One-Time Password Generator",
     long_description |-> ld,
     long_description_content_type |-> "text/markdown",
     url |-> "https://github.com/perfide/px-totp",
     packages |-> pkgs,
     classifiers |-> <<"Programming Language :: Python :: 3",
                       "License :: OSI Approved :: BSD License",
                       "Operating System :: OS Independent">>]

\* The keyword arguments of the setuptools.setup call.
Metadata(ld, pkgs) ==
    [name |-> "px-totp",
     version |-> "0.0.1",
     scripts |-> <<"px-totp">>,
     author |-> "P. H.",
     author_email |-> "px-totp.perfide@safersignup.de",
     description |-> "Time-based One-Time Password Generator",
     long_description |-> ld,
     long_description_content_type |-> "text/markdown",
     url |-> "https://github.com/perfide/px-totp",
     packages |-> pkgs,
     classifiers |-> <<"Programming Language :: Python :: 3",
                       "License :: OSI Approved :: BSD License",
                       "Operating System :: OS Independent">>]

----------------------------------------------------------------------------
(* The run.                                                                *)

StartOfRun ==
    /\ pc = "open"
    /\ fh = NoHandle
    /\ LONG_DESCRIPTION = Unbound
    /\ packages = Unbound
    /\ exc = "none"
    /\ setupCalls = <<>>
    /\ events = <<>>

Init ==
    /\ README \in Files
    /\ tree \in Trees
    /\ StartOfRun
    /\ previous = NoRun

OpenTruncating ==
    /\ pc = "open"
    /\ README.exists /\ README.readable
    /\ fh' = [state |-> "open", mode |-> "w"]
    /\ README' = [README EXCEPT !.content = <<>>]
    /\ events' = Append(events, "open")
    /\ pc' = "read"
    /\ UNCHANGED <<tree, LONG_DESCRIPTION, packages, exc, setupCalls, previous>>

\* Line 14, open('README.md', 'r') succeeds.
OpenOk ==
    /\ pc = "open"
    /\ README.exists /\ README.readable
    /\ fh' = [state |-> "open", mode |-> "r"]
    /\ events' = Append(events, "open")
    /\ pc' = "read"
    /\ UNCHANGED <<README, tree, LONG_DESCRIPTION, packages, exc, setupCalls,
                   previous>>

OpenFailSubstituteEmpty ==
    /\ pc = "open"
    /\ ~(README.exists /\ README.readable)
    /\ LONG_DESCRIPTION' = Bound(<<>>)
    /\ events' = Append(events, "open_error")
    /\ pc' = "find_packages"
    /\ UNCHANGED <<README, tree, fh, packages, exc, setupCalls, previous>>

OpenFailRetryOnce ==
    /\ pc = "open"
    /\ ~(README.exists /\ README.readable)
    /\ events' = Append(events, "open_error")
    /\ IF events = <<>>
       THEN pc' = "open" /\ exc' = exc
       ELSE /\ pc' = "failed"
            /\ exc' = IF README.exists THEN "PermissionError"
                      ELSE "FileNotFoundError"
    /\ UNCHANGED <<README, tree, fh, LONG_DESCRIPTION, packages, setupCalls,
                   previous>>

\* Line 14, open raises: the with block is never entered and nothing
\* catches the exception.
OpenFail ==
    /\ pc = "open"
    /\ ~(README.exists /\ README.readable)
    /\ exc' = IF README.exists THEN "PermissionError" ELSE "FileNotFoundError"
    /\ events' = Append(events, "open_error")
    /\ pc' = "failed"
    /\ UNCHANGED <<README, tree, fh, LONG_DESCRIPTION, packages, setupCalls,
                   previous>>

\* Line 15, fh.read() returns.
ReadOk ==
    /\ pc = "read"
    /\ Decodable(README.content)
    /\ LONG_DESCRIPTION' = Bound(Read(README.content))
    /\ events' = Append(events, "read")
    /\ pc' = "exit"
    /\ UNCHANGED <<README, tree, fh, packages, exc, setupCalls, previous>>

ReadFailSwallowed ==
    /\ pc = "read"
    /\ ~Decodable(README.content)
    /\ LONG_DESCRIPTION' = Bound(<<>>)
    /\ events' = Append(events, "read_error")
    /\ pc' = "exit"
    /\ UNCHANGED <<README, tree, fh, packages, exc, setupCalls, previous>>

ReadFailStuck ==
    /\ pc = "read"
    /\ ~Decodable(README.content)
    /\ exc' = "UnicodeDecodeError"
    /\ UNCHANGED <<README, tree, pc, fh, LONG_DESCRIPTION, packages,
                   setupCalls, events, previous>>

\* Line 15, fh.read() raises; the exception leaves through the with block.
ReadFail ==
    /\ pc = "read"
    /\ ~Decodable(README.content)
    /\ exc' = "UnicodeDecodeError"
    /\ events' = Append(events, "read_error")
    /\ pc' = "exit"
    /\ UNCHANGED <<README, tree, fh, LONG_DESCRIPTION, packages, setupCalls,
                   previous>>

ExitWithoutClose ==
    /\ pc = "exit"
    /\ events' = Append(events, "close")
    /\ pc' = IF exc = "none" THEN "find_packages" ELSE "failed"
    /\ UNCHANGED <<README, tree, fh, LONG_DESCRIPTION, packages, exc,
                   setupCalls, previous>>

\* End of the with block (normal or by exception): fh.__exit__ closes the
\* file and lets an exception in flight propagate.
ExitWith ==
    /\ pc = "exit"
    /\ fh' = [fh EXCEPT !.state = "closed"]
    /\ events' = Append(events, "close")
    /\ pc' = IF exc = "none" THEN "find_packages" ELSE "failed"
    /\ UNCHANGED <<README, tree, LONG_DESCRIPTION, packages, exc, setupCalls,
                   previous>>

\* Line 27: the arguments are evaluated before the call is made.
FindPackages ==
    /\ pc = "find_packages"
    /\ packages' = Bound(find_packages(tree))
    /\ events' = Append(events, "find_packages")
    /\ pc' = "setup"
    /\ UNCHANGED <<README, tree, fh, LONG_DESCRIPTION, exc, setupCalls,
                   previous>>

\* Line 17: control enters setuptools.setup.
CallSetup ==
    /\ pc = "setup"
    /\ setupCalls' = Append(setupCalls,
                            Metadata(LONG_DESCRIPTION.value, packages.value))
    /\ events' = Append(events, "setup")
    /\ pc' = "in_setup"
    /\ UNCHANGED <<README, tree, fh, LONG_DESCRIPTION, packages, exc,
                   previous>>

\* setuptools.setup returns and the module body ends.
SetupReturn ==
    /\ pc = "in_setup"
    /\ pc' = "done"
    /\ UNCHANGED <<README, tree, fh, LONG_DESCRIPTION, packages, exc,
                   setupCalls, events, previous>>

\* setuptools.setup raises (it exits on a bad command line); nothing
\* catches it.
SetupRaise ==
    /\ pc = "in_setup"
    /\ exc' = "SystemExit"
    /\ pc' = "failed"
    /\ UNCHANGED <<README, tree, fh, LONG_DESCRIPTION, packages, setupCalls,
                   events, previous>>

Terminal == pc \in {"done", "failed"}

\* The script is run a second time, on whatever README.md and tree are
\* there by then; what the first run read and passed is kept.
Rerun ==
    /\ Terminal
    /\ ~previous.ran
    /\ previous' = [ran |-> TRUE, content |-> README.content,
                    calls |-> setupCalls]
    /\ README' \in Files
    /\ tree' \in Trees
    /\ pc' = "open"
    /\ fh' = NoHandle
    /\ LONG_DESCRIPTION' = Unbound
    /\ packages' = Unbound
    /\ exc' = "none"
    /\ setupCalls' = <<>>
    /\ events' = <<>>

Next ==
    \/ OpenOk
    \/ OpenFail
    \/ ReadOk
    \/ ReadFail
    \/ ExitWith
    \/ FindPackages
    \/ CallSetup
    \/ SetupReturn
    \/ SetupRaise

Spec == Init /\ [][Next]_vars

\* Every step of the module body is taken once it can be: the interpreter
\* runs the script to its end, and the setup call comes back.
FairSpec == Init /\ [][Next]_vars /\ WF_vars(Next)

NextTwoRuns == Next \/ Rerun

SpecTwoRuns == Init /\ [][NextTwoRuns]_vars

----------------------------------------------------------------------------
(* Properties.                                                             *)

FileErrors == {"FileNotFoundError", "PermissionError", "UnicodeDecodeError"}

\* README.md can be opened and read to the end.
ReadSucceeds(f) == f.exists /\ f.readable /\ Decodable(f.content)

Invoked == setupCalls # <<>>

IsPrefix(s, t) == Len(s) <= Len(t) /\ SubSeq(t, 1, Len(s)) = s

\* C1: whenever README.md exists and can be read, the run ends with
\* setuptools.setup invoked, and every invocation carries the literal
\* name, version, scripts, author, author_email, description,
\* long_description_content_type, url and the three classifiers in their
\* declared order, whatever README.md contains.
C1_LiteralMetadata ==
    /\ \A i \in 1..Len(setupCalls) :
        /\ setupCalls[i].name = "px-totp"
        /\ setupCalls[i].version = "0.0.1"
        /\ setupCalls[i].scripts = <<"px-totp">>
        /\ setupCalls[i].author = "P. H."
        /\ setupCalls[i].author_email = "px-totp.perfide@safersignup.de"
        /\ setupCalls[i].description = "Time-based One-Time Password Generator"
        /\ setupCalls[i].long_description_content_type = "text/markdown"
        /\ setupCalls[i].url = "https://github.com/perfide/px-totp"
        /\ setupCalls[i].classifiers =
               <<"Programming Language :: Python :: 3",
                 "License :: OSI Approved :: BSD License",
                 "Operating System :: OS Independent">>
    /\ (ReadSucceeds(README) /\ Terminal) => Len(setupCalls) = 1

C1_Witness ==
    /\ pc = "done"
    /\ Invoked
    /\ README.content \notin {<<>>, <<"a">>}

\* C2: when README.md is absent or cannot be read, setuptools.setup is
\* never invoked, no text stands in for the missing description, the run
\* does not stop anywhere but in the failure state, and it ends there with
\* the file error in flight.
C2_NoSetupWithoutReadme ==
    ~ReadSucceeds(README) =>
        /\ ~Invoked
        /\ ~LONG_DESCRIPTION.bound
        /\ pc \in {"open", "read", "exit", "failed"}
        /\ pc = "failed" => exc \in FileErrors
        /\ pc # "failed" => ENABLED Next

C2_Witness ==
    /\ pc = "failed"
    /\ ~README.exists
    /\ exc = "FileNotFoundError"
    /\ ~Invoked

\* Position i of the file is the "\r" of a "\r\n" pair.
PairedCR(c, i) == c[i] = "CR" /\ i < Len(c) /\ c[i + 1] = "LF"

PairedBefore(c, i) == Cardinality({j \in 1..(i - 1) : PairedCR(c, j)})

\* t is c with each "\r\n" pair and each lone "\r" turned into "\n" and
\* everything else left as it is, in place.
IsNewlineTranslationOf(t, c) ==
    /\ Len(t) = Len(c) - PairedBefore(c, Len(c) + 1)
    /\ \A i \in 1..Len(c) :
        ~PairedCR(c, i) =>
            t[i - PairedBefore(c, i)] = IF c[i] = "CR" THEN "LF" ELSE c[i]

\* C3 as stated: whenever setuptools.setup is invoked, long_description
\* is the content of README.md itself, for every content.
C3_Original_ExactContent ==
    \A i \in 1..Len(setupCalls) :
        setupCalls[i].long_description = README.content

\* C3 amended: whenever setuptools.setup is invoked, long_description is
\* the whole content of README.md read as text, which is the content with
\* every "\r\n" and every lone "\r" replaced by "\n"; it is the content
\* itself for every file without a carriage return, the empty file
\* included.
C3_WholeTextNewlinesTranslated ==
    \A i \in 1..Len(setupCalls) :
        /\ IsNewlineTranslationOf(setupCalls[i].long_description,
                                  README.content)
        /\ (\A k \in 1..Len(README.content) : README.content[k] # "CR")
               => setupCalls[i].long_description = README.content

C3_Witness ==
    /\ Invoked
    /\ README.content = <<"CR", "LF">>
    /\ setupCalls[1].long_description = <<"LF">>

\* C4: the README.md handle is open only between the open and the end of
\* the with block; it is closed whenever setuptools.setup is being or has
\* been invoked, and closed in the failure state reached when the read
\* raises after a successful open.
C4_HandleClosedOutsideRead ==
    /\ fh.state = "open" => pc \in {"read", "exit"}
    /\ (Invoked \/ pc \in {"find_packages", "setup", "in_setup", "done"})
           => fh.state = "closed"
    /\ (pc = "failed" /\ exc = "UnicodeDecodeError") => fh.state = "closed"

C4_Witness ==
    /\ pc = "failed"
    /\ exc = "UnicodeDecodeError"
    /\ fh.state = "closed"

SuccessOrder == <<"open", "read", "close", "find_packages", "setup">>

\* C5: the steps of a run occur in the order open, read, close, (evaluate
\* find_packages,) invoke setup; setup is invoked at most once and only
\* after a read that completed successfully and the close that follows it.
C5_FixedOrder ==
    /\ \/ IsPrefix(events, SuccessOrder)
       \/ events = <<"open_error">>
       \/ IsPrefix(events, <<"open", "read_error", "close">>)
    /\ Len(setupCalls) <= 1
    /\ Invoked =>
        /\ events = SuccessOrder
        /\ LONG_DESCRIPTION.bound
        /\ exc \in {"none", "SystemExit"}

C5_Witness ==
    /\ pc = "in_setup"
    /\ events = SuccessOrder
    /\ Len(setupCalls) = 1

OpenAttempts ==
    Cardinality({i \in 1..Len(events) : events[i] \in {"open", "open_error"}})

\* C6: a run attempts to open README.md at most once; while a file error
\* is in flight nothing has been configured (no description bound, no
\* packages evaluated, no setup call), a failed open goes straight to the
\* failure state, and a failed read goes there through the end of the
\* with block only.
C6_NoRetry ==
    /\ [](/\ OpenAttempts <= 1
          /\ "open_error" \in {events[i] : i \in 1..Len(events)}
                 => pc = "failed" /\ exc \in FileErrors
          /\ exc \in FileErrors =>
                 /\ pc \in {"exit", "failed"}
                 /\ ~LONG_DESCRIPTION.bound
                 /\ ~packages.bound
                 /\ ~Invoked)
    /\ [][(exc \in FileErrors /\ pc = "exit") => pc' = "failed"]_vars
    /\ [][(exc \in FileErrors) => (exc' = exc)]_vars

C6_Witness ==
    /\ pc = "failed"
    /\ exc = "PermissionError"
    /\ OpenAttempts = 1
    /\ README.content # <<>>

\* C7: README.md is opened in read mode only and no step of the script
\* changes it: its content at the end of a run, successful or failing, is
\* its content at the start.
C7_ReadmeUnchanged ==
    /\ [](fh # NoHandle => fh.mode = "r")
    /\ [][(README' = README)]_vars

C7_Witness ==
    /\ Terminal
    /\ fh.mode = "r"
    /\ README.content # <<>>

FailedBeforeSetup == pc = "failed" /\ ~Invoked /\ exc \in FileErrors

SetupInvokedOnce ==
    /\ Terminal
    /\ Len(setupCalls) = 1
    /\ setupCalls[1] = Metadata(LONG_DESCRIPTION.value, packages.value)

\* C8: every run ends, and it ends in exactly one of two outcomes: failed
\* before setup (the README.md read failed) or setup invoked once with the
\* metadata record; no run stays in the reading state for ever.
C8_OneOfTwoOutcomes ==
    /\ <>Terminal
    /\ [](Terminal => (FailedBeforeSetup \/ SetupInvokedOnce))
    /\ [](~(FailedBeforeSetup /\ SetupInvokedOnce))
    /\ [][Terminal => (Terminal')]_vars

C8_Witness ==
    /\ FailedBeforeSetup
    /\ exc = "UnicodeDecodeError"

WithoutPackages(call) == [call EXCEPT !.packages = <<>>]

C10_EmptyReadmeAccepted ==
    /\ (README.exists /\ README.readable /\ README.content = <<>>) =>
        /\ exc \notin FileErrors
        /\ Terminal => Len(setupCalls) = 1
        /\ \A i \in 1..Len(setupCalls) :
               setupCalls[i].long_description = <<>>
    /\ \A i \in 1..Len(setupCalls) :
        /\ setupCalls[i].name # ""
        /\ setupCalls[i].version # ""
        /\ setupCalls[i].author # ""
        /\ setupCalls[i].author_email # ""
        /\ setupCalls[i].description # ""
        /\ setupCalls[i].url # ""

C10_Witness ==
    /\ pc = "done"
    /\ README.exists /\ README.readable /\ README.content = <<>>
    /\ Len(setupCalls) = 1
    /\ setupCalls[1].long_description = <<>>

====
